---- MODULE Spec2Model ----
(***************************************************************************)
(* Model of the OSRM travel-time scripts:                                  *)
(*   NeoModelos/calc_mega_matrix.py  chunked N x N matrix ("mega")         *)
(*   calc_ful_chile.py               one matrix per region ("region")      *)
(*   Cluster/osrm_script.py          point-to-point times per port         *)
(*                                   ("route")                             *)
(*   test_drive.py                   one matrix for one region ("fetch")   *)
(*                                                                         *)
(* Numbers.  A JSON cell of a response is <<>> (null) or <<d>> (d seconds).*)
(* A numpy/python float is a reduced fraction <<num, den>> with den > 0;   *)
(* NaN is <<0, 0>>.  float32 rounding of a quotient is not modelled: the   *)
(* arithmetic is exact.  A matrix is a sequence of rows.                   *)
(***************************************************************************)
EXTENDS Integers, Sequences, FiniteSets

\* ------------------------------------------------------------- bounds
MaxN == 3
MaxB == 2
MaxChunkFaults == 1
MaxDim == 2
MaxRows == 3
MaxRegions == 2
MaxRegionFaults == 1
MaxPorts == 1
MaxMines == 2
MaxRetries == 2
MaxRouteFaults == 3

\* ---------------------------------------------------- program constants
BATCH_SIZE == 300
NAN_SENTINEL == 360000
FAIL_SENTINEL == 999999
SECONDS_PER_MINUTE == 60
DEFAULT_RETRIES == 3
MIN_MINES == 2

VARIABLES
  script,         \* which script runs: "mega", "region", "route", "fetch"
  pc,             \* position of the script
  log,            \* the HTTP requests issued so far, each with its response
  faults,         \* how many of them the service did not answer as asked
  saved,          \* what the write-output step was given
  \* calc_mega_matrix
  N, B, i, j, mega_matrix, writes,
  \* calc_ful_chile
  df, hasIdFaena, ridx, arrays_to_save,
  \* osrm_script
  nPorts, nRows, port, row, retries, attempt, times, columns,
  \* one call of a table fetcher (test_drive runs get_matrix once)
  fn, n_src, n_dst, resp, out

commonVars == <<script, pc, log, faults, saved>>
megaVars == <<N, B, i, j, mega_matrix, writes>>
regionVars == <<df, hasIdFaena, ridx, arrays_to_save>>
routeVars == <<nPorts, nRows, port, row, retries, attempt, times, columns>>
fetchVars == <<fn, n_src, n_dst, resp, out>>
vars == <<commonVars, megaVars, regionVars, routeVars, fetchVars>>

\* ------------------------------------------------------------ numbers
Min(a, b) == IF a < b THEN a ELSE b

RECURSIVE GCD(_, _)
GCD(a, b) == IF b = 0 THEN a ELSE GCD(b, a % b)

\* JSON null and a JSON number of seconds
JNull == <<>>
JNum(d) == <<d>>

\* float NaN and a float holding the integer n
NaN == <<0, 0>>
Float(n) == <<n, 1>>

\* v / k for a float v and a positive integer k
Div(v, k) ==
  IF v = NaN THEN NaN
  ELSE LET g == GCD(v[1], v[2] * k)
       IN  <<v[1] \div g, (v[2] * k) \div g>>

\* ----------------------------------------------------------- matrices
Rows(m) == Len(m)
Cols(m) == IF Len(m) = 0 THEN 0 ELSE Len(m[1])
Shape(m) == <<Rows(m), Cols(m)>>

\* np.array(data['durations'], dtype=np.float32): None becomes NaN
np_array(table) ==
  [r \in 1..Len(table) |->
    [c \in 1..Len(table[r]) |->
      IF table[r][c] = JNull THEN NaN ELSE Float(table[r][c][1])]]

\* np.nan_to_num(matrix, nan=...)
nan_to_num(m, nan) ==
  [r \in 1..Len(m) |->
    [c \in 1..Len(m[r]) |-> IF m[r][c] = NaN THEN Float(nan) ELSE m[r][c]]]

\* matrix / 60.0
DivMatrix(m, k) ==
  [r \in 1..Len(m) |-> [c \in 1..Len(m[r]) |-> Div(m[r][c], k)]]

\* np.full((nr, nc), v) and np.zeros((nr, nc))
np_full(nr, nc, v) == [r \in 1..nr |-> [c \in 1..nc |-> Float(v)]]
np_zeros(nr, nc) == np_full(nr, nc, 0)

\* mutants of ToMinutes: no nan_to_num; nan_to_num after the division;
\* seconds divided into hours
ToMinutes_no_nan_to_num(table) ==
  DivMatrix(np_array(table), SECONDS_PER_MINUTE)
ToMinutes_replace_after_division(table) ==
  nan_to_num(DivMatrix(np_array(table), SECONDS_PER_MINUTE), NAN_SENTINEL)
ToMinutes_hours(table) ==
  DivMatrix(nan_to_num(np_array(table), NAN_SENTINEL), 3600)

\* the three lines shared by the table fetchers on a parsed 200 response
ToMinutes(table) ==
  DivMatrix(nan_to_num(np_array(table), NAN_SENTINEL), SECONDS_PER_MINUTE)

\* ---------------------------------------------------------- responses
\* What requests.get and r.json() can give.  exc: requests.get raised
\* (timeout, connection error).  kind, for a body: "table" (a list of lists
\* under 'durations'), "route" (a value under routes[0].duration), "nokey"
\* (valid JSON without the field), "malformed" (the field is not a
\* rectangular table of numbers/nulls), "notjson" (r.json() raises),
\* "none" (no body is read).
Response(e, s, k, t, d) ==
  [exc |-> e, status |-> s, kind |-> k, table |-> t, duration |-> d]

Raised == Response(TRUE, 0, "none", <<>>, JNull)
Status(s) == Response(FALSE, s, "none", <<>>, JNull)
Body(k) == Response(FALSE, 200, k, <<>>, JNull)
Table(t) == Response(FALSE, 200, "table", t, JNull)
Route(d) == Response(FALSE, 200, "route", <<>>, d)

ErrorStatuses == {400, 414, 500}

\* ------------------------------------------------------ table fetchers
\* the try block raises: requests.get, r.json(), data['durations'] or
\* np.array(..., dtype=np.float32) on a ragged or non-numeric table
RaisesInTry(rsp) ==
  \/ rsp.exc
  \/ rsp.status = 200 /\ rsp.kind \in {"notjson", "nokey", "malformed"}

\* mutants of get_chunk_matrix: the failure matrix built as (n_dst, n_src);
\* the failure matrix filled with zeros
get_chunk_matrix_swapped_fill(src_coords, dst_coords, rsp) ==
  IF ~RaisesInTry(rsp) /\ rsp.status = 200
  THEN ToMinutes(rsp.table)
  ELSE np_full(Len(dst_coords), Len(src_coords), FAIL_SENTINEL)
get_chunk_matrix_zero_fill(src_coords, dst_coords, rsp) ==
  IF ~RaisesInTry(rsp) /\ rsp.status = 200
  THEN ToMinutes(rsp.table)
  ELSE np_zeros(Len(src_coords), Len(dst_coords))

\* calc_mega_matrix.get_chunk_matrix, given the response to its request
get_chunk_matrix(src_coords, dst_coords, rsp) ==
  IF ~RaisesInTry(rsp) /\ rsp.status = 200
  THEN ToMinutes(rsp.table)
  ELSE np_full(Len(src_coords), Len(dst_coords), FAIL_SENTINEL)

\* None, or a returned matrix
None == [isNone |-> TRUE, m |-> <<>>]
Some(m) == [isNone |-> FALSE, m |-> m]

\* calc_ful_chile.get_region_matrix
get_region_matrix(rsp) ==
  IF rsp.exc THEN None
  ELSE IF rsp.status = 200
       THEN IF rsp.kind = "notjson" THEN None
            ELSE IF rsp.kind = "nokey" THEN None
            ELSE IF rsp.kind = "malformed" THEN None
            ELSE Some(ToMinutes(rsp.table))
       ELSE IF rsp.status = 414 THEN None
       ELSE None

\* test_drive.get_matrix
get_matrix(rsp) ==
  IF RaisesInTry(rsp) THEN None
  ELSE IF rsp.status = 200 THEN Some(ToMinutes(rsp.table))
  ELSE None

\* -------------------------------------------------- the routing service
\* Seconds from coordinate a to coordinate b, as the deterministic service
\* answers: 0 on the diagonal, null for the unreachable pairs, asymmetric.
Dur(a, b) ==
  IF a = b THEN JNum(0)
  ELSE IF (a + 2 * b) % 5 = 0 THEN JNull
  ELSE JNum(600 * a + 90 * b)

\* The table endpoint: durations[r][c] is the time from the coordinate at
\* index sources[r] to the one at index destinations[c] (0-based).
OsrmTable(req) ==
  [r \in 1..Len(req.sources) |->
    [c \in 1..Len(req.destinations) |->
      Dur(req.coords[req.sources[r] + 1], req.coords[req.destinations[c] + 1])]]

\* A table of nr x nc numbers that answers no request of the scripts
StrayTable(nr, nc) == [r \in 1..nr |-> [c \in 1..nc |-> JNum(30 * r + c)]]

\* the shapes other than nr x nc a 200 response may have
WrongShapes(nr, nc) == ({1, nr, nr + 1} \X {1, nc, nc + 1}) \ {<<nr, nc>>}

\* every answer other than a 200 with the requested table
FaultResponses(nr, nc) ==
  {Raised} \cup {Status(s) : s \in ErrorStatuses}
  \cup {Body(k) : k \in {"notjson", "nokey", "malformed"}}
  \cup {Table(StrayTable(sh[1], sh[2])) : sh \in WrongShapes(nr, nc)}

\* --------------------------------------------------- calc_mega_matrix
\* coords: the rows of the input file, each coordinate named by its row
coords == [k \in 1..N |-> k]
ids == [k \in 1..N |-> k]

\* coords[a : a + B]
Batch(a) == SubSeq(coords, a + 1, Min(a + B, N))

\* mutant of ChunkRequest: the destination indices start at 0 again
ChunkRequest_same_indices(src_coords, dst_coords) ==
  [coords |-> src_coords \o dst_coords,
   sources |-> [k \in 1..Len(src_coords) |-> k - 1],
   destinations |-> [k \in 1..Len(dst_coords) |-> k - 1]]

\* the request get_chunk_matrix builds: sources first, then destinations
ChunkRequest(src_coords, dst_coords) ==
  [coords |-> src_coords \o dst_coords,
   sources |-> [k \in 1..Len(src_coords) |-> k - 1],
   destinations |->
     [k \in 1..Len(dst_coords) |-> Len(src_coords) + k - 1]]

\* numpy broadcasting of a 2-d value into a 2-d slice
CanBroadcast(shape, target) ==
  /\ shape[1] \in {1, target[1]}
  /\ shape[2] \in {1, target[2]}

InSlice(r, c, a, b, nr, nc) == r \in (a + 1)..(a + nr) /\ c \in (b + 1)..(b + nc)

\* mega_matrix[a : a + nr, b : b + nc] = sub
AssignSlice(M, a, b, nr, nc, sub) ==
  [r \in 1..Len(M) |->
    [c \in 1..Len(M[r]) |->
      IF InSlice(r, c, a, b, nr, nc)
      THEN sub[IF Rows(sub) = 1 THEN 1 ELSE r - a][IF Cols(sub) = 1 THEN 1 ELSE c - b]
      ELSE M[r][c]]]

\* the position after chunk pair (a, b) in the two nested range loops
NextJ(a, b) == IF b + B < N THEN b + B ELSE 0
NextI(a, b) == IF b + B < N THEN a ELSE a + B
LoopEnds(a, b) == b + B >= N /\ a + B >= N

\* one iteration of the chunk loop, the service answering rsp.  Both
\* batches are non-empty for every (i, j) the ranges give, so the
\* "continue" of line 88 is never taken.
ChunkIteration(rsp) ==
  LET src_batch == Batch(i)
      dst_batch == Batch(j)
      sub_matrix == get_chunk_matrix(src_batch, dst_batch, rsp)
      nr == Len(src_batch)
      nc == Len(dst_batch)
  IN  /\ log' = Append(log, [key |-> <<i, j>>,
                            req |-> ChunkRequest(src_batch, dst_batch),
                            resp |-> rsp])
      /\ IF CanBroadcast(Shape(sub_matrix), <<nr, nc>>)
         THEN /\ mega_matrix' = AssignSlice(mega_matrix, i, j, nr, nc, sub_matrix)
              /\ writes' = [r \in 1..N |-> [c \in 1..N |->
                               IF InSlice(r, c, i, j, nr, nc)
                               THEN writes[r][c] + 1 ELSE writes[r][c]]]
              /\ i' = NextI(i, j)
              /\ j' = NextJ(i, j)
              /\ pc' = IF LoopEnds(i, j) THEN "save" ELSE "loop"
         ELSE \* ValueError at the assignment, outside any try
              /\ pc' = "crashed"
              /\ UNCHANGED <<mega_matrix, writes, i, j>>

ChunkAnswered ==
  /\ script = "mega" /\ pc = "loop"
  /\ ChunkIteration(Table(OsrmTable(ChunkRequest(Batch(i), Batch(j)))))
  /\ UNCHANGED <<script, saved, faults, N, B>>
  /\ UNCHANGED <<regionVars, routeVars, fetchVars>>

ChunkFailed ==
  /\ script = "mega" /\ pc = "loop"
  /\ faults < MaxChunkFaults
  /\ \E rsp \in FaultResponses(Len(Batch(i)), Len(Batch(j))) : ChunkIteration(rsp)
  /\ faults' = faults + 1
  /\ UNCHANGED <<script, saved, N, B>>
  /\ UNCHANGED <<regionVars, routeVars, fetchVars>>

\* np.savez_compressed(OUTPUT_FILE, matrix=mega_matrix, ids=ids)
SaveMega ==
  /\ script = "mega" /\ pc = "save"
  /\ saved' = [matrix |-> mega_matrix, ids |-> ids]
  /\ pc' = "done"
  /\ UNCHANGED <<script, log, faults, megaVars, regionVars, routeVars, fetchVars>>

\* values of the variables a script does not use
NoSaved == [k \in {} |-> 0]
IdleMega ==
  /\ N = 0 /\ B = 1 /\ i = 0 /\ j = 0
  /\ mega_matrix = <<>> /\ writes = <<>>
IdleRegion == df = <<>> /\ hasIdFaena = FALSE /\ ridx = 1 /\ arrays_to_save = NoSaved
IdleRoute ==
  /\ nPorts = 0 /\ nRows = 0 /\ port = 1 /\ row = 1
  /\ retries = 0 /\ attempt = 0 /\ times = <<>> /\ columns = <<>>
IdleFetch == fn = "none" /\ n_src = 0 /\ n_dst = 0 /\ resp = Raised /\ out = None

\* the state after lines 56-78: the file is read, the matrix allocated
InitMega ==
  /\ script = "mega"
  /\ N \in 0..MaxN
  /\ B \in (1..MaxB) \cup {BATCH_SIZE}
  /\ i = 0 /\ j = 0
  /\ mega_matrix = np_zeros(N, N)
  /\ writes = [r \in 1..N |-> [c \in 1..N |-> 0]]
  /\ pc = IF N = 0 THEN "save" ELSE "loop"
  /\ log = <<>> /\ faults = 0 /\ saved = NoSaved
  /\ IdleRegion /\ IdleRoute /\ IdleFetch

\* ----------------------------------------------------- calc_ful_chile
\* df: the rows of the input file after dropna, each row its RegionFaena
\* (regions are numbered in alphabetical order).  Row k has index label
\* k - 1 and, when the column exists, IdFaena 100 + k.
RECURSIVE SortedSeq(_)
SortedSeq(S) ==
  IF S = {} THEN <<>>
  ELSE LET m == CHOOSE x \in S : \A y \in S : x <= y
       IN  <<m>> \o SortedSeq(S \ {m})

\* sorted(df['RegionFaena'].unique().astype(str))
regions == SortedSeq({df[k] : k \in 1..Len(df)})

\* df[df['RegionFaena'] == region], as the row numbers kept
RegionRows(region) ==
  SelectSeq([k \in 1..Len(df) |-> k], LAMBDA k : df[k] = region)

\* df_reg['IdFaena'].values, else df_reg.index.to_numpy()
RegionIds(region) ==
  LET rws == RegionRows(region)
  IN  [k \in 1..Len(rws) |-> IF hasIdFaena THEN 100 + rws[k] ELSE rws[k] - 1]

\* the request of get_region_matrix and get_matrix: every coordinate is a
\* source and a destination
FullRequest(cs) ==
  [coords |-> cs,
   sources |-> [k \in 1..Len(cs) |-> k - 1],
   destinations |-> [k \in 1..Len(cs) |-> k - 1]]

\* f"{region}_matrix", f"{region}_ids"
Key(region, suffix) == <<region, suffix>>

\* arrays_to_save[key] = value
SetItem(d, key, value) ==
  [k \in DOMAIN d \cup {key} |-> IF k = key THEN value ELSE d[k]]

\* one iteration of the region loop that reaches the fetch
RegionIteration(rsp) ==
  LET region == regions[ridx]
      matrix == get_region_matrix(rsp)
  IN  /\ log' = Append(log, [key |-> <<region, 0>>,
                            req |-> FullRequest(RegionRows(region)),
                            resp |-> rsp])
      /\ arrays_to_save' =
           IF matrix.isNone THEN arrays_to_save
           ELSE SetItem(SetItem(arrays_to_save, Key(region, "matrix"), matrix.m),
                        Key(region, "ids"), RegionIds(region))
      /\ ridx' = ridx + 1
      /\ pc' = IF ridx = Len(regions) THEN "save" ELSE "loop"

\* if n_mines < 2: continue
RegionSkipped ==
  /\ script = "region" /\ pc = "loop"
  /\ Len(RegionRows(regions[ridx])) < MIN_MINES
  /\ ridx' = ridx + 1
  /\ pc' = IF ridx = Len(regions) THEN "save" ELSE "loop"
  /\ UNCHANGED <<script, log, faults, saved, df, hasIdFaena, arrays_to_save>>
  /\ UNCHANGED <<megaVars, routeVars, fetchVars>>

RegionAnswered ==
  /\ script = "region" /\ pc = "loop"
  /\ Len(RegionRows(regions[ridx])) >= MIN_MINES
  /\ RegionIteration(Table(OsrmTable(FullRequest(RegionRows(regions[ridx])))))
  /\ UNCHANGED <<script, faults, saved, df, hasIdFaena>>
  /\ UNCHANGED <<megaVars, routeVars, fetchVars>>

RegionFailed ==
  /\ script = "region" /\ pc = "loop"
  /\ Len(RegionRows(regions[ridx])) >= MIN_MINES
  /\ faults < MaxRegionFaults
  /\ \E rsp \in FaultResponses(Len(RegionRows(regions[ridx])),
                               Len(RegionRows(regions[ridx]))) :
       RegionIteration(rsp)
  /\ faults' = faults + 1
  /\ UNCHANGED <<script, saved, df, hasIdFaena>>
  /\ UNCHANGED <<megaVars, routeVars, fetchVars>>

\* np.savez_compressed(OUTPUT_FILE, **arrays_to_save)
SaveRegions ==
  /\ script = "region" /\ pc = "save"
  /\ saved' = arrays_to_save
  /\ pc' = "done"
  /\ UNCHANGED <<script, log, faults, megaVars, regionVars, routeVars, fetchVars>>

\* the state after lines 65-80
InitRegion ==
  /\ script = "region"
  /\ df \in UNION {[1..n -> 1..MaxRegions] : n \in 0..MaxRows}
  /\ hasIdFaena \in BOOLEAN
  /\ ridx = 1
  /\ arrays_to_save = NoSaved
  /\ pc = IF df = <<>> THEN "save" ELSE "loop"
  /\ log = <<>> /\ faults = 0 /\ saved = NoSaved
  /\ IdleMega /\ IdleRoute /\ IdleFetch

\* -------------------------------------------------------- osrm_script
\* Seconds from mine row r to port p, as the route endpoint answers
RouteDur(p, r) == JNum(600 * p + 90 * r)

\* every answer to a route request other than a 200 with a duration
RouteFaults ==
  {Raised} \cup {Status(s) : s \in ErrorStatuses}
  \cup {Body(k) : k \in {"notjson", "nokey"}}
  \cup {Route(JNull)}

\* mutant of LoopContinues: one pass too many
LoopContinues_inclusive(a) == a <= retries

\* for _ in range(retries): a passes are done, is there another one
LoopContinues(a) == a < retries

\* lines 28-30 give a value: status 200 and data['routes'][0]['duration'] / 60
\* does not raise
Readable(rsp) ==
  ~rsp.exc /\ rsp.status = 200 /\ rsp.kind = "route" /\ rsp.duration # JNull

\* osrm_route_time has returned t: times.append(t), then the next row, the
\* next port (df[col_name] = times) or the end of both loops
RouteReturn(t) ==
  LET ts == Append(times, t)
  IN  IF row < nRows
      THEN /\ times' = ts /\ row' = row + 1
           /\ UNCHANGED <<port, columns>> /\ pc' = "call"
      ELSE /\ times' = <<>> /\ row' = 1 /\ port' = port + 1
           /\ columns' = Append(columns, ts)
           /\ pc' = IF port = nPorts THEN "save" ELSE "call"

\* requests.get(url, timeout=15); in this script log holds the requests of
\* the current call of osrm_route_time only
RouteRequest(rsp) ==
  log' = Append(IF attempt = 0 THEN <<>> ELSE log,
                [key |-> <<port, row>>,
                 req |-> [coords |-> <<row, port>>,
                          sources |-> <<>>, destinations |-> <<>>],
                 resp |-> rsp])

\* one pass of "for _ in range(retries)" that returns the duration
RouteAttemptOk ==
  /\ script = "route" /\ pc = "call" /\ nRows > 0
  /\ LoopContinues(attempt)
  /\ RouteRequest(Route(RouteDur(port, row)))
  /\ RouteReturn(Some(Div(Float(RouteDur(port, row)[1]), SECONDS_PER_MINUTE)))
  /\ attempt' = 0
  /\ UNCHANGED <<script, faults, saved, nPorts, nRows, retries>>
  /\ UNCHANGED <<megaVars, regionVars, fetchVars>>

\* one pass that does not: a status other than 200, or an exception that
\* "except Exception: pass" drops; after the last pass, return None
RouteAttemptFailed ==
  /\ script = "route" /\ pc = "call" /\ nRows > 0
  /\ LoopContinues(attempt)
  /\ faults < MaxRouteFaults
  /\ \E rsp \in RouteFaults : RouteRequest(rsp)
  /\ faults' = faults + 1
  /\ IF LoopContinues(attempt + 1)
     THEN /\ attempt' = attempt + 1
          /\ UNCHANGED <<pc, port, row, times, columns>>
     ELSE /\ attempt' = 0
          /\ RouteReturn(None)
  /\ UNCHANGED <<script, saved, nPorts, nRows, retries>>
  /\ UNCHANGED <<megaVars, regionVars, fetchVars>>

\* range(0): no pass at all, return None
RouteNoAttempt ==
  /\ script = "route" /\ pc = "call" /\ nRows > 0
  /\ attempt = 0 /\ ~LoopContinues(0)
  /\ RouteReturn(None)
  /\ log' = <<>>
  /\ UNCHANGED <<script, faults, saved, nPorts, nRows, retries, attempt>>
  /\ UNCHANGED <<megaVars, regionVars, fetchVars>>

\* a port when df has no row: df[col_name] = []
PortNoRows ==
  /\ script = "route" /\ pc = "call" /\ nRows = 0
  /\ columns' = Append(columns, <<>>)
  /\ port' = port + 1
  /\ pc' = IF port = nPorts THEN "save" ELSE "call"
  /\ UNCHANGED <<script, log, faults, saved, nPorts, nRows, row, retries,
                 attempt, times>>
  /\ UNCHANGED <<megaVars, regionVars, fetchVars>>

\* df.to_csv(output_path, index=False)
SaveCsv ==
  /\ script = "route" /\ pc = "save"
  /\ saved' = columns
  /\ pc' = "done"
  /\ UNCHANGED <<script, log, faults, megaVars, regionVars, routeVars, fetchVars>>

\* the state after lines 15-16.  The script calls osrm_route_time with the
\* default retries; the other values are the function under its parameter.
InitRoute ==
  /\ script = "route"
  /\ nPorts \in 0..MaxPorts
  /\ nRows \in 0..MaxMines
  /\ retries \in (0..MaxRetries) \cup {DEFAULT_RETRIES}
  /\ port = 1 /\ row = 1 /\ attempt = 0
  /\ times = <<>> /\ columns = <<>>
  /\ pc = IF nPorts = 0 THEN "save" ELSE "call"
  /\ log = <<>> /\ faults = 0 /\ saved = NoSaved
  /\ IdleMega /\ IdleRegion /\ IdleFetch

\* ------------------------------------------- one call of a table fetcher
\* the 4-coordinate scenario: seconds in, minutes out
ExampleSeconds ==
  << <<0, 600, 1200, 1800>>, <<600, 0, 600, 1200>>,
     <<1200, 600, 0, 600>>, <<1800, 1200, 600, 0>> >>
ExampleTable == [r \in 1..4 |-> [c \in 1..4 |-> JNum(ExampleSeconds[r][c])]]

\* an nr x nc table with null exactly at the positions in nulls
NullsTable(nr, nc, nulls) ==
  [r \in 1..nr |-> [c \in 1..nc |->
    IF <<r, c>> \in nulls THEN JNull ELSE JNum(30 * r + c)]]

AnyTables ==
  {ExampleTable} \cup
  UNION {{NullsTable(sh[1], sh[2], nulls) :
            nulls \in SUBSET ((1..sh[1]) \X (1..sh[2]))} :
         sh \in (1..MaxDim) \X (1..MaxDim)}

AnyResponses ==
  {Raised} \cup {Status(s) : s \in ErrorStatuses}
  \cup {Body(k) : k \in {"notjson", "nokey", "malformed"}}
  \cup {Table(t) : t \in AnyTables}

Fetchers == {"get_chunk_matrix", "get_region_matrix", "get_matrix"}

CoordsOf(n) == [k \in 1..n |-> k]

\* the fetcher fn is called once and the service answers resp
CallFetcher ==
  /\ script = "fetch" /\ pc = "call"
  /\ out' = IF fn = "get_chunk_matrix"
            THEN Some(get_chunk_matrix(CoordsOf(n_src), CoordsOf(n_dst), resp))
            ELSE IF fn = "get_region_matrix" THEN get_region_matrix(resp)
            ELSE get_matrix(resp)
  /\ log' = Append(log, [key |-> <<n_src, n_dst>>,
                         req |-> IF fn = "get_chunk_matrix"
                                 THEN ChunkRequest(CoordsOf(n_src), CoordsOf(n_dst))
                                 ELSE FullRequest(CoordsOf(n_src)),
                         resp |-> resp])
  /\ pc' = "returned"
  /\ UNCHANGED <<script, faults, saved, fn, n_src, n_dst, resp>>
  /\ UNCHANGED <<megaVars, regionVars, routeVars>>

\* test_drive lines 80-89: if matrix is not None, np.savez_compressed
SaveTestDrive ==
  /\ script = "fetch" /\ pc = "returned"
  /\ fn = "get_matrix"
  /\ ~out.isNone
  /\ saved' = [matrix |-> out.m]
  /\ pc' = "done"
  /\ UNCHANGED <<script, log, faults, megaVars, regionVars, routeVars, fetchVars>>

\* a fetcher about to be called with n_src (and n_dst) coordinates
InitFetch ==
  /\ script = "fetch"
  /\ fn \in Fetchers
  /\ n_src \in (1..MaxDim) \cup {Rows(ExampleTable)}
  /\ n_dst \in IF fn = "get_chunk_matrix" THEN 1..MaxDim ELSE {n_src}
  /\ resp \in AnyResponses
  /\ out = None
  /\ pc = "call"
  /\ log = <<>> /\ faults = 0 /\ saved = NoSaved
  /\ IdleMega /\ IdleRegion /\ IdleRoute

\* ------------------------------------------------------ specification
Init == InitMega \/ InitRegion \/ InitRoute \/ InitFetch

Next ==
  \/ ChunkAnswered \/ ChunkFailed \/ SaveMega
  \/ RegionSkipped \/ RegionAnswered \/ RegionFailed \/ SaveRegions
  \/ RouteAttemptOk \/ RouteAttemptFailed \/ RouteNoAttempt \/ PortNoRows
  \/ SaveCsv
  \/ CallFetcher \/ SaveTestDrive

Spec == Init /\ [][Next]_vars

\* ------------------------------------------------- notions of the claims
Last(q) == q[Len(q)]
LogIndex == 1..Len(log)

\* a 200 response carrying a table
HasTable(rsp) == ~rsp.exc /\ rsp.status = 200 /\ rsp.kind = "table"

\* a 200 response carrying a table for the requested indices
RequestedTable(e) ==
  /\ HasTable(e.resp)
  /\ Shape(e.resp.table) = <<Len(e.req.sources), Len(e.req.destinations)>>

\* the float v is d seconds in minutes
IsMinutesOf(v, d) == v[2] > 0 /\ v[1] * 60 = d * v[2]

\* the requests of get_chunk_matrix
ChunkCall == script = "mega" \/ (script = "fetch" /\ fn = "get_chunk_matrix")
\* a call of a table fetcher has returned out
FetcherReturned == script = "fetch" /\ pc \in {"returned", "done"}

\* the chunk pairs of the grid, as the loop offsets (i, j)
Offsets == {a \in 0..(N - 1) : a % B = 0}
Grid == Offsets \X Offsets
\* the chunk pairs before (i, j) in the order of the two loops
Before(a, b) == {g \in Grid : g[1] < a \/ (g[1] = a /\ g[2] < b)}

\* the cell TimeAt(p, r) of the output of osrm_script: column p, row r
TimeAt(p, r) == IF p <= Len(columns) THEN columns[p][r] ELSE times[r]
\* the call of osrm_route_time whose requests log holds has returned
RouteReturned == script = "route" /\ log # <<>> /\ attempt = 0

\* ---------------------------------------------------------------- C1
\* C1: for non-empty source and destination batches get_chunk_matrix
\* returns a matrix of shape (|sources|, |destinations|) when the service
\* answers 200 with a table for the requested indices, answers non-200, or
\* the request raises.
C1_ChunkShape ==
  /\ ChunkCall =>
       \A k \in LogIndex :
         LET e == log[k]
             src == SubSeq(e.req.coords, 1, Len(e.req.sources))
             dst == SubSeq(e.req.coords, Len(e.req.sources) + 1, Len(e.req.coords))
         IN  (e.resp.exc \/ e.resp.status # 200 \/ RequestedTable(e))
             => Shape(get_chunk_matrix(src, dst, e.resp)) = <<Len(src), Len(dst)>>
  /\ (FetcherReturned /\ fn = "get_chunk_matrix"
        /\ (resp.exc \/ resp.status # 200 \/ RequestedTable(log[1])))
     => Shape(out.m) = <<n_src, n_dst>>

C1_Witness ==
  /\ FetcherReturned /\ fn = "get_chunk_matrix"
  /\ resp.exc /\ n_src = 1 /\ n_dst = 2
  /\ Shape(out.m) = <<1, 2>>

\* ---------------------------------------------------------------- C2
\* C2 as stated: a null entry of a 200 table gives the cell 360000.0 in the
\* matrix a table fetcher returns, and not NaN.
C2_NullIsSentinelMinutes ==
  (FetcherReturned /\ HasTable(resp)) =>
    \A r \in 1..Rows(resp.table) : \A c \in 1..Cols(resp.table) :
      resp.table[r][c] = JNull =>
        out.m[r][c] = Float(NAN_SENTINEL) /\ out.m[r][c] # NaN

\* C2 amended: a null entry of a 200 table gives the cell 6000.0 (minutes)
\* in the matrix a table fetcher returns, and not NaN.
C2_NullIsSixThousand ==
  (FetcherReturned /\ HasTable(resp)) =>
    /\ ~out.isNone
    /\ \A r \in 1..Rows(resp.table) : \A c \in 1..Cols(resp.table) :
         resp.table[r][c] = JNull =>
           out.m[r][c] = Float(6000) /\ out.m[r][c] # NaN

C2_Witness ==
  /\ FetcherReturned /\ fn = "get_region_matrix" /\ HasTable(resp)
  /\ Shape(resp.table) = <<2, 2>>
  /\ resp.table[1][2] = JNull /\ resp.table[2][1] # JNull
  /\ out.m[1][2] = Float(6000)

\* ---------------------------------------------------------------- C3
\* C3: in the chunk loop a 414 answer for a chunk pair does not crash the
\* run, the loop goes on to the next chunk pair and, once the loop has
\* ended, every chunk pair has been requested; the cells of the failed pair
\* hold 999999.0 and the cells of a pair answered with its table hold the
\* values of that answer.
C3_Survives414 ==
  script = "mega" =>
    /\ \A k \in LogIndex :
         LET e == log[k]
             a == e.key[1]
             b == e.key[2]
             nr == Len(e.req.sources)
             nc == Len(e.req.destinations)
         IN  /\ (~e.resp.exc /\ e.resp.status = 414) =>
                  /\ ~(pc = "crashed" /\ k = Len(log))
                  /\ \A r \in (a + 1)..(a + nr) : \A c \in (b + 1)..(b + nc) :
                       mega_matrix[r][c] = Float(FAIL_SENTINEL)
                  /\ (k = Len(log) /\ pc = "loop") =>
                       Before(i, j) = Before(a, b) \cup {<<a, b>>}
                  /\ pc \in {"save", "done"} =>
                       {log[x].key : x \in LogIndex} = Grid
             /\ RequestedTable(e) =>
                  \A x \in 1..nr : \A y \in 1..nc :
                    IF e.resp.table[x][y] = JNull
                    THEN mega_matrix[a + x][b + y] = Float(6000)
                    ELSE IsMinutesOf(mega_matrix[a + x][b + y], e.resp.table[x][y][1])

C3_Witness ==
  /\ script = "mega" /\ pc = "done" /\ N = 3 /\ B = 2
  /\ Len(log) = 4
  /\ log[2].key = <<0, 2>> /\ log[2].resp = Status(414)
  /\ mega_matrix[1][3] = Float(FAIL_SENTINEL)
  /\ mega_matrix[2][3] = Float(FAIL_SENTINEL)
  /\ mega_matrix[3][3] = Float(0)

\* ---------------------------------------------------------------- C4
\* every request so far was answered by the deterministic service
Deterministic == \A k \in LogIndex : log[k].resp = Table(OsrmTable(log[k].req))

\* C4: for every N and B, against the deterministic service, no cell is
\* written twice and, once the loop has ended, the assembled matrix equals
\* the matrix of one unchunked call: every cell (a, b) was written exactly
\* once, by chunk pair (a div B, b div B), with the value for source a and
\* destination b.
C4_ChunkedEqualsUnchunked ==
  script = "mega" =>
    /\ \A r \in 1..N : \A c \in 1..N : writes[r][c] <= 1
    /\ (pc \in {"save", "done"} /\ Deterministic) =>
         /\ mega_matrix =
              get_chunk_matrix(coords, coords,
                               Table(OsrmTable(ChunkRequest(coords, coords))))
         /\ \A r \in 1..N : \A c \in 1..N :
              LET g == <<B * ((r - 1) \div B), B * ((c - 1) \div B)>>
              IN  /\ writes[r][c] = 1
                  /\ \E k \in LogIndex :
                       /\ log[k].key = g
                       /\ mega_matrix[r][c] =
                            ToMinutes(log[k].resp.table)[r - g[1]][c - g[2]]
                  /\ IF Dur(coords[r], coords[c]) = JNull
                     THEN mega_matrix[r][c] = Float(6000)
                     ELSE IsMinutesOf(mega_matrix[r][c], Dur(coords[r], coords[c])[1])

C4_Witness ==
  /\ script = "mega" /\ pc = "done" /\ N = 3 /\ B = 2
  /\ Deterministic /\ Len(log) = 4
  /\ mega_matrix[3][2] = Float(33)

\* ---------------------------------------------------------------- C5
ExampleMinutes ==
  << <<0, 10, 20, 30>>, <<10, 0, 10, 20>>, <<20, 10, 0, 10>>, <<30, 20, 10, 0>> >>

\* C5: on a 200 response every non-null duration of d seconds is in the
\* output at the same row and column as d/60 minutes, in the table
\* fetchers and in osrm_route_time; the 4-coordinate example gives the
\* stated minutes.
C5_SecondsToMinutes ==
  /\ (FetcherReturned /\ HasTable(resp)) =>
       /\ ~out.isNone
       /\ Shape(out.m) = Shape(resp.table)
       /\ \A r \in 1..Rows(resp.table) : \A c \in 1..Cols(resp.table) :
            resp.table[r][c] # JNull =>
              IsMinutesOf(out.m[r][c], resp.table[r][c][1])
  /\ (FetcherReturned /\ resp = Table(ExampleTable)) =>
       out.m = [r \in 1..4 |-> [c \in 1..4 |-> Float(ExampleMinutes[r][c])]]
  /\ (RouteReturned /\ Readable(Last(log).resp)) =>
       LET e == Last(log)
           t == TimeAt(e.key[1], e.key[2])
       IN  ~t.isNone /\ IsMinutesOf(t.m, e.resp.duration[1])

C5_Witness ==
  /\ FetcherReturned /\ fn = "get_matrix" /\ n_src = 4
  /\ resp = Table(ExampleTable)
  /\ out.m[1] = <<Float(0), Float(10), Float(20), Float(30)>>
  /\ out.m[4][2] = Float(20)

\* ---------------------------------------------------------------- C6
\* C6: whatever the service answers (a non-200 status, an exception, a 200
\* response whose duration field is missing or malformed, a table of the
\* wrong shape), no exception leaves the fetch call or the loop around it:
\* the run never stops with an uncaught exception.
C6_NoOutcomeHaltsRun == pc # "crashed"

\* ---------------------------------------------------------------- C7
\* C7: one call of osrm_route_time issues at most retries requests, all for
\* the same coordinate pair; only its last request can have been answered
\* with a readable duration, which it then returns in minutes; it returns
\* None exactly when retries requests have failed.  A table fetcher issues
\* one request per call: the chunk loop has issued exactly one request for
\* each chunk pair it has reached, and for every chunk pair of the grid once
\* it has ended; the region loop one request per region of at least 2 mines.
C7_RequestsPerCall ==
  /\ script = "route" =>
       /\ Len(log) <= retries
       /\ \A k \in LogIndex :
            /\ log[k].key = log[1].key
            /\ k < Len(log) => ~Readable(log[k].resp)
       /\ RouteReturned =>
            LET e == Last(log)
                t == TimeAt(e.key[1], e.key[2])
            IN  IF Readable(e.resp)
                THEN t = Some(Div(Float(e.resp.duration[1]), SECONDS_PER_MINUTE))
                ELSE t.isNone /\ Len(log) = retries
  /\ script \in {"mega", "region", "fetch"} =>
       \A k \in LogIndex : \A l \in LogIndex : log[k].key = log[l].key => k = l
  /\ script = "mega" =>
       /\ pc = "loop" => {log[k].key : k \in LogIndex} = Before(i, j)
       /\ pc = "crashed" => {log[k].key : k \in LogIndex} = Before(i, j) \cup {<<i, j>>}
       /\ pc \in {"save", "done"} => {log[k].key : k \in LogIndex} = Grid
  /\ script = "region" =>
       {log[k].key[1] : k \in LogIndex} =
         {regions[x] : x \in {y \in 1..(ridx - 1) :
                                 Len(RegionRows(regions[y])) >= MIN_MINES}}
  /\ script = "fetch" => Len(log) = IF pc = "call" THEN 0 ELSE 1

C7_Witness ==
  /\ RouteReturned /\ retries = DEFAULT_RETRIES /\ Len(log) = DEFAULT_RETRIES
  /\ log[1].resp = Raised /\ log[2].resp = Status(500)
  /\ Readable(log[3].resp)
  /\ ~TimeAt(log[3].key[1], log[3].key[2]).isNone

\* ---------------------------------------------------------------- C8
\* C8: in every fetch function, after a response with status 400 or 414
\* the same request is never issued again.
C8_TooLargeNotRetried ==
  \A k \in LogIndex : \A l \in LogIndex :
    (k < l /\ ~log[k].resp.exc /\ log[k].resp.status \in {400, 414})
      => log[l].key # log[k].key

\* ---------------------------------------------------------------- C9
NoNaN(m) == \A r \in 1..Rows(m) : \A c \in 1..Len(m[r]) : m[r][c] # NaN

\* C9: in the three table fetchers a null entry of a 200 table becomes
\* 360000 seconds and is divided by 60 with the rest, so the returned cell
\* holds 6000.0; matrices handed to the write-output step hold no NaN, and
\* hold 6000.0 where the response held null.
C9_NullPersistedAsSixThousand ==
  /\ (FetcherReturned /\ ~out.isNone) =>
       /\ NoNaN(out.m)
       /\ HasTable(resp) =>
            \A r \in 1..Rows(resp.table) : \A c \in 1..Cols(resp.table) :
              resp.table[r][c] = JNull =>
                /\ IsMinutesOf(out.m[r][c], NAN_SENTINEL)
                /\ out.m[r][c] = Float(6000)
  /\ (script = "fetch" /\ pc = "done") => saved.matrix = out.m
  /\ (script = "mega" /\ pc = "done") =>
       /\ NoNaN(saved.matrix)
       /\ \A k \in LogIndex :
            RequestedTable(log[k]) =>
              \A x \in 1..Rows(log[k].resp.table) :
                \A y \in 1..Cols(log[k].resp.table) :
                  log[k].resp.table[x][y] = JNull =>
                    saved.matrix[log[k].key[1] + x][log[k].key[2] + y] = Float(6000)
  /\ (script = "region" /\ pc = "done") =>
       /\ \A key \in DOMAIN saved : key[2] = "matrix" => NoNaN(saved[key])
       /\ \A k \in LogIndex :
            HasTable(log[k].resp) =>
              \A x \in 1..Rows(log[k].resp.table) :
                \A y \in 1..Cols(log[k].resp.table) :
                  log[k].resp.table[x][y] = JNull =>
                    saved[Key(log[k].key[1], "matrix")][x][y] = Float(6000)

C9_Witness ==
  /\ script = "region" /\ pc = "done"
  /\ \E k \in LogIndex :
       /\ RequestedTable(log[k])
       /\ \E x \in 1..Rows(log[k].resp.table) : \E y \in 1..Cols(log[k].resp.table) :
            /\ log[k].resp.table[x][y] = JNull
            /\ saved[Key(log[k].key[1], "matrix")][x][y] = Float(6000)

\* --------------------------------------------------------------- C10
\* C10: in the region run the output holds '<region>_matrix' if and only if
\* it holds '<region>_ids', exactly for the regions of at least 2 mines
\* whose fetch returned a matrix (that matrix, whatever the other regions
\* did); the ids array has one entry per row of the region's matrix.
C10_RegionKeys ==
  script = "region" =>
    \A r \in 1..MaxRegions :
      LET hasM == Key(r, "matrix") \in DOMAIN arrays_to_save
          hasI == Key(r, "ids") \in DOMAIN arrays_to_save
          fetched == {k \in LogIndex : log[k].key[1] = r
                                       /\ ~get_region_matrix(log[k].resp).isNone}
      IN  /\ hasM <=> hasI
          /\ hasM <=> fetched # {}
          /\ fetched # {} => Len(RegionRows(r)) >= MIN_MINES
          /\ hasM =>
               /\ \A k \in fetched :
                    arrays_to_save[Key(r, "matrix")] = get_region_matrix(log[k].resp).m
               /\ Len(arrays_to_save[Key(r, "ids")]) =
                    Rows(arrays_to_save[Key(r, "matrix")])

====
